---- MODULE Spec2Model ----
(***************************************************************************)
(* The two browser verification scripts of jules-scratch/verification:     *)
(*   verify_bets.py            main() / verify_bets(page)                  *)
(*   verify_realtime_updates.py  test_realtime_updates(page)               *)
(* A run is one execution of one script against the application under      *)
(* test; Spec is one run, SpecRuns a sequence of runs that share the        *)
(* working directory.  Every statement of the scripts is one action; a     *)
(* statement that waits (goto waiting for the load event, a click waiting  *)
(* for its element, an expect polling its locator, time.sleep) is a look   *)
(* action plus the passing of time (Tick).  Every call into the browser    *)
(* library, the entry and the exit of the with block included, either      *)
(* returns or raises.  The application under test is the    *)
(* environment: the page loads some time after the navigation began, the   *)
(* UI renders some time after that, and the game state shows some time     *)
(* after the backend pushed it.  Time is counted in seconds.               *)
(***************************************************************************)
EXTENDS Integers, Sequences, FiniteSets, TLC

\* ---------------------------------------------------------------- bounds
\* The interval between two polls of a waiting step is drawn from
\* 1..MaxPollInterval; a locator matches 0..MaxMatches elements.
MaxPollInterval == 2
MaxMatches == 2
\* SpecRuns executes at most MaxRuns runs one after the other.
MaxRuns == 2

\* ------------------------------------------------------ program constants
\* time.sleep(5)
SleepSeconds == 5
\* to_be_visible(timeout=10000)
PlayerTimeout == 10
\* to_be_visible() without a timeout: the expect default, 5000 ms
ExpectDefaultTimeout == 5
\* click() without a timeout: the action default, 30000 ms
ClickDefaultTimeout == 30
\* goto() without a timeout: the navigation default, 30000 ms
GotoDefaultTimeout == 30

\* "not yet" for a time stamp
Never == 0 - 1

VARIABLES
    script,       \* which script runs: "bets" or "realtime"
    pc,           \* the statement the run is at
    exc,          \* the exception propagating out of the run, or "none"
    live,         \* the browser process is running
    page,         \* the page handle exists
    launches,     \* calls of chromium.launch
    closeCalls,   \* calls of browser.close
    killedByExit, \* the with-block's exit found the browser running and ended it
    exitCode,     \* the outcome reported to the caller: Never until the run ends
    elapsed,      \* seconds since the current statement began
    sleepLeft,    \* seconds left before the waiting statement looks again
    pollInterval, \* seconds between two polls
    screen,       \* the page: "blank", "loading", "home", "poker"
    loaded,       \* the WASM UI has rendered
    clickable,    \* the control of the current screen is actionable:
                  \* visible, stable, enabled and not covered
    linkCount,    \* "Poker Online" links the home screen renders
    buttonCount,  \* "Connect" buttons the poker screen renders
    headingCount, \* "Poker Online" headings the poker screen renders
    cellCount,    \* cells named "Player..." the game view renders
    potCount,     \* elements with the text "Pot: " the game view renders
    backendAlive, \* the backend pushes game state to a connected client
    connected,    \* the client asked the backend for a connection
    stateShown,   \* the game state is rendered (the player table is visible)
    potShown,     \* the "Pot: " text is visible
    hist,         \* one record per step begun, in the order begun
    timing,       \* first look and times of the step begun last
    verdict,      \* outcome of the scenario function: "none", "pass", "fail"
    verdicts,     \* how many times an outcome was produced
    failIdx,      \* index of the step that raised, 0 if none
    shots,        \* calls of page.screenshot in this run that wrote a file
    files,        \* the files written so far: path -> content
    runNo         \* number of this run, counted from 1

rendered == <<linkCount, buttonCount, headingCount, cellCount, potCount>>
app == <<screen, loaded, clickable, rendered,
         backendAlive, connected, stateShown, potShown>>
session == <<live, page, launches, closeCalls, killedByExit, exitCode>>
clock == <<elapsed, sleepLeft, pollInterval>>
outcome == <<hist, timing, verdict, verdicts, failIdx, shots, files>>
vars == <<script, runNo, pc, exc, session, clock, app, outcome>>

Scripts == {"bets", "realtime"}

\* ------------------------------------------------------------ step indices
\* test_realtime_updates: 1 goto, 2 click link, 3 expect heading,
\* 4 click Connect, 5 expect Player cell, 6 expect Pot text.
\* verify_bets: 1 goto.
IdxGoto == 1
IdxClickLink == 2
IdxExpectHeading == 3
IdxClickConnect == 4
IdxExpectCell == 5
IdxExpectPot == 6

\* ------------------------------------------------- what the page shows
\* The navigation has settled: the load event fired.
PageSettled == screen \in {"home", "poker"}

\* Elements page.get_by_role("link", name="Poker Online") matches.
LinkMatches == IF loaded /\ screen = "home" THEN linkCount ELSE 0

\* Elements page.get_by_role("button", name="Connect") matches.
ButtonMatches == IF loaded /\ screen = "poker" THEN buttonCount ELSE 0

\* Elements page.get_by_role("heading", name="Poker Online") matches.
HeadingMatches == IF loaded /\ screen = "poker" THEN headingCount ELSE 0

\* Elements page.get_by_role("cell", name="Player") matches.
CellMatches == IF stateShown /\ screen = "poker" THEN cellCount ELSE 0

\* Elements page.get_by_text("Pot: ") matches.
PotMatches == IF potShown THEN potCount ELSE 0

\* Elements the statement at p looks for (the settled page, for goto).
Matches(p) ==
    CASE p = "goto"           -> IF PageSettled THEN 1 ELSE 0
      [] p = "click_link"     -> LinkMatches
      [] p = "expect_heading" -> HeadingMatches
      [] p = "click_connect"  -> ButtonMatches
      [] p = "expect_cell"    -> CellMatches
      [] p = "expect_pot"     -> PotMatches
      [] OTHER                -> 0

\* The condition the statement at p waits for: its locator resolves to one
\* element, which for a click must be actionable.
Holds(p) ==
    /\ Matches(p) = 1
    /\ p \in {"click_link", "click_connect"} => clickable

\* ------------------------------------------------------- step records
\* The time a step of this kind waits at most for its condition.
TimeoutOfKind(i, kind) ==
    IF kind = "navigate" THEN GotoDefaultTimeout
    ELSE IF kind = "click" THEN ClickDefaultTimeout
    ELSE IF i = IdxExpectCell THEN PlayerTimeout
    ELSE ExpectDefaultTimeout

\* Filled in when the step ends: res; seenInTime: its locator matched
\* something strictly before its timeout; satInTime: the awaited condition
\* held strictly before its timeout; satEarly: it held more than one
\* polling interval before the timeout; prompt: the step ended no later
\* than one polling interval after the condition first held.
StepRecord(i, kind) ==
    [idx |-> i, kind |-> kind, res |-> "running",
     seenInTime |-> FALSE, satInTime |-> FALSE, satEarly |-> FALSE,
     prompt |-> FALSE]

\* What is kept of the step begun last.  n0: elements matched at its first
\* look; waited: it did not end at its first look.  Its times, kept while
\* it is in progress and when it fails: seen, when its locator first
\* matched anything; sat, when the awaited condition first held; endAt,
\* when the step failed.  A step that succeeds leaves its flags in hist and
\* clears the times.
NoTiming ==
    [n0 |-> 0, waited |-> FALSE, seen |-> Never, sat |-> Never,
     endAt |-> Never]

StartTiming(n, holds) ==
    [n0 |-> n,
     waited |-> FALSE,
     seen |-> IF n > 0 THEN 0 ELSE Never,
     sat |-> IF holds THEN 0 ELSE Never,
     endAt |-> Never]

\* The times of a step that ended at the current look.
EndTiming(tm, ok) ==
    IF ok THEN [NoTiming EXCEPT !.n0 = tm.n0, !.waited = elapsed > 0]
    ELSE [tm EXCEPT !.waited = elapsed > 0, !.endAt = elapsed]

\* hist once step i has begun: its record is appended by the step's first look.
Begin(i, kind) ==
    IF Len(hist) < i THEN Append(hist, StepRecord(i, kind)) ELSE hist

\* The times of step i at a look: started by the step's first look.
BeginTiming(i, n, holds) ==
    IF Len(hist) < i THEN StartTiming(n, holds) ELSE timing

Before(t, T) == t # Never /\ t < T

\* t lies more than one polling interval before T.
Early(t, T) == t # Never /\ t + pollInterval < T

Finish(h, tm, r) ==
    LET T == TimeoutOfKind(h[Len(h)].idx, h[Len(h)].kind)
    IN  [h EXCEPT ![Len(h)].res = r,
                  ![Len(h)].seenInTime = Before(tm.seen, T),
                  ![Len(h)].satInTime = Before(tm.sat, T),
                  ![Len(h)].satEarly = Early(tm.sat, T),
                  ![Len(h)].prompt =
                      tm.sat # Never /\ elapsed <= tm.sat + pollInterval]

\* The page changed while a statement waits: note when its locator first
\* matched (n > 0) and when its condition first held, once each.
MarkSat(h, tm, n, holds) ==
    IF Len(h) > 0 /\ h[Len(h)].res = "running"
    THEN [tm EXCEPT
            !.seen = IF @ = Never /\ n > 0 THEN elapsed ELSE @,
            !.sat = IF @ = Never /\ holds THEN elapsed ELSE @]
    ELSE tm

\* Where an exception raised inside the scenario function lands: main's with
\* block for verify_bets, the caller of test_realtime_updates otherwise.
Unwind == IF script = "bets" THEN "exit_with" ELSE "release"

\* The statement succeeded: control moves to the next statement q.
StepOk(h, tm, q) ==
    /\ hist' = Finish(h, tm, "ok")
    /\ timing' = EndTiming(tm, TRUE)
    /\ pc' = q
    /\ elapsed' = 0
    /\ sleepLeft' = 0
    /\ UNCHANGED <<exc, verdict, verdicts, failIdx>>

\* Faulty variant of StepRaise: the exception is caught around the
\* statement and the statement is tried again.
StepRaiseRetried(h, tm, i, e) ==
    /\ hist' = Finish(h, tm, e)
    /\ timing' = EndTiming(tm, FALSE)
    /\ elapsed' = 0
    /\ sleepLeft' = 0
    /\ UNCHANGED <<pc, exc, verdict, verdicts, failIdx>>

\* Faulty variant of StepRaise: the failure is reported against the
\* statement after the one that raised.
StepRaiseWrongIndex(h, tm, i, e) ==
    /\ hist' = Finish(h, tm, e)
    /\ timing' = EndTiming(tm, FALSE)
    /\ exc' = e
    /\ verdict' = "fail"
    /\ verdicts' = verdicts + 1
    /\ failIdx' = i + 1
    /\ pc' = Unwind
    /\ elapsed' = 0
    /\ sleepLeft' = 0

\* The statement of step i raised e: nothing catches it, so the scenario
\* function ends here with that exception.
StepRaise(h, tm, i, e) ==
    /\ hist' = Finish(h, tm, e)
    /\ timing' = EndTiming(tm, FALSE)
    /\ exc' = e
    /\ verdict' = "fail"
    /\ verdicts' = verdicts + 1
    /\ failIdx' = i
    /\ pc' = Unwind
    /\ elapsed' = 0
    /\ sleepLeft' = 0

\* The statement waits d seconds before it looks again.
StepWait(h, tm, d) ==
    /\ hist' = h
    /\ timing' = tm
    /\ sleepLeft' = d
    /\ UNCHANGED <<pc, elapsed, exc, verdict, verdicts, failIdx>>

\* What one look of goto decides: the load event fired, else the navigation
\* timeout, else it goes on waiting.
NavigateDecision(settled, T) ==
    IF settled THEN "ok"
    ELSE IF elapsed >= T THEN "timeout"
    ELSE "wait"

\* A polling statement with timeout T sleeps until its next look: one
\* polling interval, or less when the deadline comes first.
NextLook(T) ==
    IF elapsed + pollInterval > T THEN T - elapsed ELSE pollInterval

\* Faulty variant of ExpectDecision: the condition is tested before the
\* deadline, so the locator is looked at once more when the timeout has
\* elapsed.
ExpectDecisionConditionFirst(n, T) ==
    IF n > 1 THEN "ambiguous"
    ELSE IF n = 1 THEN "ok"
    ELSE IF elapsed >= T THEN "timeout"
    ELSE "wait"

\* What a polled assertion decides when it wakes, its locator resolving to
\* n visible elements.  The timeout is a deadline: once it has elapsed the
\* assertion fails whatever the page shows by then.  Before the deadline
\* more than one element is a strict-mode violation, one satisfies the
\* assertion, none is waited for.
ExpectDecision(n, T) ==
    IF elapsed >= T THEN "timeout"
    ELSE IF n > 1 THEN "ambiguous"
    ELSE IF n = 1 THEN "ok"
    ELSE "wait"

\* What a click decides when it wakes.  The action timeout is a deadline:
\* once it has elapsed the click is aborted whatever has appeared since the
\* last look.  Before the deadline more than one match is a strict-mode
\* violation, one actionable match is clicked, anything else (no match, or
\* one that is not actionable yet) is waited for.
ClickDecision(n, act, T) ==
    IF elapsed >= T THEN "timeout"
    ELSE IF n > 1 THEN "ambiguous"
    ELSE IF n = 1 /\ act THEN "ok"
    ELSE "wait"

\* expect(locator).to_be_visible(timeout=T) as step i at statement p, the
\* locator resolving to n visible elements.
ExpectVisible(i, p, n, T, q) ==
    /\ pc = p
    /\ sleepLeft = 0
    /\ LET h == Begin(i, "expect")
           tm == BeginTiming(i, n, n = 1)
           dec == ExpectDecision(n, T)
       IN  CASE dec = "ok"        -> StepOk(h, tm, q)
             [] dec = "ambiguous" -> StepRaise(h, tm, i, "StrictModeViolation")
             [] dec = "timeout"   -> StepRaise(h, tm, i, "TimeoutExceeded")
             [] OTHER             -> StepWait(h, tm, NextLook(T))
    /\ UNCHANGED <<script, runNo, session, pollInterval, app, shots, files>>

\* ------------------------------------------------------------------ Init
\* path= of verify_bets' page.screenshot
BetsArtifactPath == "jules-scratch/verification/verification.png"
\* path= of test_realtime_updates' page.screenshot
RtArtifactPath == "jules-scratch/verification/verification.png"

NoFile == [by |-> "nobody", run |-> 0, screen |-> "blank", game |-> FALSE]
NoFiles == [p \in {} |-> NoFile]

\* The file system after content was written to path: an existing file at
\* that path is replaced, other files stay.
WriteFile(fs, path, content) ==
    [p \in DOMAIN fs \cup {path} |-> IF p = path THEN content ELSE fs[p]]

FileAt(path) == IF path \in DOMAIN files THEN files[path] ELSE NoFile

\* content of jules-scratch/verification/verification.png
file == FileAt(RtArtifactPath)

Init ==
    /\ script \in Scripts
    /\ pc = IF script = "bets" THEN "enter" ELSE "acquire"
    /\ exc = "none"
    /\ live = FALSE
    /\ page = FALSE
    /\ launches = 0
    /\ closeCalls = 0
    /\ killedByExit = FALSE
    /\ exitCode = Never
    /\ elapsed = 0
    /\ sleepLeft = 0
    /\ pollInterval \in 1..MaxPollInterval
    /\ screen = "blank"
    /\ loaded = FALSE
    /\ clickable = FALSE
    /\ linkCount = 0
    /\ buttonCount = 0
    /\ headingCount = 0
    /\ cellCount = 0
    /\ potCount = 0
    /\ backendAlive \in BOOLEAN
    /\ connected = FALSE
    /\ stateShown = FALSE
    /\ potShown = FALSE
    /\ hist = <<>>
    /\ timing = NoTiming
    /\ verdict = "none"
    /\ verdicts = 0
    /\ failIdx = 0
    /\ shots = 0
    /\ files = NoFiles
    /\ runNo = 1

\* ------------------------------------------------- verify_bets.py: main
\* with sync_playwright() as p: entering the block starts the Playwright
\* driver.  When the entry raises, the body and the block's exit do not
\* run: the exception leaves main and the process exits non-zero, no launch
\* attempted.
EnterWith ==
    /\ pc = "enter"
    /\ \E ok \in BOOLEAN :
         IF ok
         THEN /\ pc' = "launch"
              /\ UNCHANGED <<exc, exitCode>>
         ELSE /\ pc' = "done"
              /\ exc' = "EnterError"
              /\ exitCode' = 1
    /\ UNCHANGED <<script, runNo, live, page, launches, closeCalls,
                   killedByExit, clock, app, outcome>>

\* Faulty variant of Launch: a failed launch is ignored and main goes on.
LaunchFailureIgnored ==
    /\ pc = "launch"
    /\ launches' = launches + 1
    /\ \E ok \in BOOLEAN :
         /\ live' = ok
         /\ pc' = "new_page"
         /\ exc' = IF ok THEN exc ELSE "LaunchFailure"
    /\ UNCHANGED <<script, runNo, page, closeCalls, killedByExit, exitCode,
                   clock, app, outcome>>

\* browser = p.chromium.launch(headless=True)
Launch ==
    /\ pc = "launch"
    /\ launches' = launches + 1
    /\ \E ok \in BOOLEAN :
         IF ok
         THEN /\ live' = TRUE
              /\ pc' = "new_page"
              /\ exc' = exc
         ELSE /\ live' = live
              /\ pc' = "exit_with"
              /\ exc' = "LaunchFailure"
    /\ UNCHANGED <<script, runNo, page, closeCalls, killedByExit, exitCode,
                   clock, app, outcome>>

\* page = browser.new_page(): the page is opened, or the call raises and
\* main is left with the browser running.
NewPage ==
    /\ pc = "new_page"
    /\ \E ok \in BOOLEAN :
         IF ok
         THEN /\ page' = TRUE
              /\ pc' = "goto"
              /\ exc' = exc
         ELSE /\ page' = page
              /\ pc' = "exit_with"
              /\ exc' = "NewPageError"
    /\ UNCHANGED <<script, runNo, live, launches, closeCalls, killedByExit,
                   exitCode, clock, app, outcome>>

\* browser.close(), reached only when verify_bets(page) returned: the
\* browser ends, or the call raises and leaves the browser running.
BrowserClose ==
    /\ pc = "close"
    /\ closeCalls' = closeCalls + 1
    /\ \E ok \in BOOLEAN :
         IF ok
         THEN /\ live' = FALSE
              /\ page' = FALSE
              /\ exc' = exc
         ELSE /\ UNCHANGED <<live, page>>
              /\ exc' = "CloseError"
    /\ pc' = "exit_with"
    /\ UNCHANGED <<script, runNo, launches, killedByExit, exitCode,
                   clock, app, outcome>>

\* Faulty variant of ExitWith: main() is called a second time after the
\* first call ended.
ExitWithThenMainAgain ==
    /\ pc = "exit_with"
    /\ \E ok \in BOOLEAN, ended \in BOOLEAN :
         IF ok
         THEN /\ ended
              /\ killedByExit' = live
              /\ live' = FALSE
              /\ page' = FALSE
              /\ exc' = exc
              /\ exitCode' = IF exc = "none" THEN 0 ELSE 1
         ELSE /\ killedByExit' = (live /\ ended)
              /\ live' = (live /\ ~ended)
              /\ page' = (page /\ ~ended)
              /\ exc' = "ExitError"
              /\ exitCode' = 1
    /\ pc' = IF launches < 2 THEN "enter" ELSE "done"
    /\ UNCHANGED <<script, runNo, launches, closeCalls, clock, app, outcome>>

\* Leaving `with sync_playwright() as p:`, normally or by an exception: the
\* exit stops the driver.  When it returns, a browser that is still running
\* has been ended with the driver, and the exception of the body, if any,
\* leaves main.  The exit can raise too: its exception is then the one that
\* leaves main, in place of the body's, and a browser that was still
\* running has been ended or is left running.  The process exits with 0
\* only when nothing was raised.
ExitWith ==
    /\ pc = "exit_with"
    /\ \E ok \in BOOLEAN, ended \in BOOLEAN :
         IF ok
         THEN /\ ended
              /\ killedByExit' = live
              /\ live' = FALSE
              /\ page' = FALSE
              /\ exc' = exc
              /\ exitCode' = IF exc = "none" THEN 0 ELSE 1
         ELSE /\ killedByExit' = (live /\ ended)
              /\ live' = (live /\ ~ended)
              /\ page' = (page /\ ~ended)
              /\ exc' = "ExitError"
              /\ exitCode' = 1
    /\ pc' = "done"
    /\ UNCHANGED <<script, runNo, launches, closeCalls, clock, app, outcome>>

\* ------------------------------- the caller of test_realtime_updates(page)
\* The page argument is a session the caller acquired: browser plus page.
FixtureAcquire ==
    /\ pc = "acquire"
    /\ launches' = launches + 1
    /\ \E ok \in BOOLEAN :
         IF ok
         THEN /\ live' = TRUE
              /\ page' = TRUE
              /\ pc' = "goto"
              /\ UNCHANGED <<exc, exitCode>>
         ELSE /\ UNCHANGED <<live, page>>
              /\ pc' = "done"
              /\ exc' = "LaunchFailure"
              /\ exitCode' = 1
    /\ UNCHANGED <<script, runNo, closeCalls, killedByExit, clock, app, outcome>>

\* The caller releases the session when the function returned or raised.
FixtureRelease ==
    /\ pc = "release"
    /\ closeCalls' = closeCalls + 1
    /\ live' = FALSE
    /\ page' = FALSE
    /\ exitCode' = IF exc = "none" THEN 0 ELSE 1
    /\ pc' = "done"
    /\ UNCHANGED <<script, runNo, exc, launches, killedByExit, clock, app, outcome>>

\* --------------------------------------------------- shared statements
\* Faulty variant of Navigate: a failed navigation is caught and the
\* function goes on with the next statement.
NavigateFailureSwallowed(i, q) ==
    /\ pc = "goto"
    /\ sleepLeft = 0
    /\ LET h == Begin(i, "navigate")
           tm == BeginTiming(i, 0, FALSE)
       IN  IF Len(hist) < i
           THEN \E ok \in BOOLEAN :
                  IF ok
                  THEN /\ StepWait(h, tm, GotoDefaultTimeout)
                       /\ screen' = "loading"
                  ELSE /\ hist' = Finish(h, tm, "NavigationFailure")
                       /\ timing' = EndTiming(tm, FALSE)
                       /\ pc' = q
                       /\ elapsed' = 0
                       /\ sleepLeft' = 0
                       /\ UNCHANGED <<exc, verdict, verdicts, failIdx, screen>>
           ELSE /\ LET dec == NavigateDecision(PageSettled, GotoDefaultTimeout)
                   IN  CASE dec = "ok"      -> StepOk(h, tm, q)
                         [] dec = "timeout" ->
                              /\ hist' = Finish(h, tm, "TimeoutError")
                              /\ timing' = EndTiming(tm, FALSE)
                              /\ pc' = q
                              /\ elapsed' = 0
                              /\ sleepLeft' = 0
                              /\ UNCHANGED <<exc, verdict, verdicts, failIdx>>
                         [] OTHER -> StepWait(h, tm, GotoDefaultTimeout - elapsed)
                /\ screen' = screen
    /\ UNCHANGED <<script, runNo, session, pollInterval, loaded, clickable,
                   rendered, backendAlive, connected, stateShown, potShown,
                   shots, files>>

\* page.goto(url) as step i.  The first look starts the navigation: it is
\* refused at once, or the document is being loaded and goto waits for the
\* load event.  goto is woken when the event fires or when the navigation
\* timeout has elapsed, and returns or raises accordingly.
Navigate(i, q) ==
    /\ pc = "goto"
    /\ sleepLeft = 0
    /\ LET h == Begin(i, "navigate")
           tm == BeginTiming(i, 0, FALSE)
       IN  IF Len(hist) < i
           THEN \E ok \in BOOLEAN :
                  IF ok
                  THEN /\ StepWait(h, tm, GotoDefaultTimeout)
                       /\ screen' = "loading"
                  ELSE /\ StepRaise(h, tm, i, "NavigationFailure")
                       /\ screen' = screen
           ELSE /\ LET dec == NavigateDecision(PageSettled, GotoDefaultTimeout)
                   IN  CASE dec = "ok"      -> StepOk(h, tm, q)
                         [] dec = "timeout" -> StepRaise(h, tm, i, "TimeoutError")
                         [] OTHER -> StepWait(h, tm, GotoDefaultTimeout - elapsed)
                /\ screen' = screen
    /\ UNCHANGED <<script, runNo, session, pollInterval, loaded, clickable,
                   rendered, backendAlive, connected, stateShown, potShown,
                   shots, files>>

\* locator.click() as step i at statement p, the locator matching n
\* elements, act telling whether the control is actionable.
ClickLocator(i, p, n, act, T, q) ==
    /\ pc = p
    /\ sleepLeft = 0
    /\ LET h == Begin(i, "click")
           tm == BeginTiming(i, n, n = 1 /\ act)
           dec == ClickDecision(n, act, T)
       IN  CASE dec = "ok"        -> StepOk(h, tm, q)
             [] dec = "ambiguous" -> StepRaise(h, tm, i, "StrictModeViolation")
             [] dec = "timeout"   -> StepRaise(h, tm, i, "TimeoutError")
             [] OTHER             -> StepWait(h, tm, NextLook(T))

\* page.screenshot(path=...) is the function's last statement.  It writes
\* the file and the function returns: the scenario passed.  Or it raises:
\* no file is written and the exception leaves the function.
Screenshot(path, q) ==
    /\ pc = "screenshot"
    /\ \E ok \in BOOLEAN :
         IF ok
         THEN /\ shots' = shots + 1
              /\ files' = WriteFile(files, path,
                                    [by |-> script, run |-> runNo,
                                     screen |-> screen, game |-> stateShown])
              /\ verdict' = "pass"
              /\ pc' = q
              /\ exc' = exc
         ELSE /\ UNCHANGED <<shots, files>>
              /\ verdict' = "fail"
              /\ pc' = Unwind
              /\ exc' = "ScreenshotError"
    /\ verdicts' = verdicts + 1
    /\ UNCHANGED <<script, runNo, session, clock, app, hist, timing, failIdx>>

\* ---------------------------------------- verify_bets.py: verify_bets
\* page.goto("http://localhost:3000/?autostart=true")
BetsGoto ==
    /\ script = "bets"
    /\ Navigate(IdxGoto, "sleep")

\* Faulty variant of BetsSleep: after the sleep the function asserts that
\* the game is rendered and raises when it is not.
BetsSleepThenAssert ==
    /\ pc = "sleep"
    /\ sleepLeft = 0
    /\ IF elapsed < SleepSeconds
       THEN /\ sleepLeft' = SleepSeconds - elapsed
            /\ UNCHANGED <<pc, elapsed, exc, outcome>>
       ELSE /\ elapsed' = 0
            /\ sleepLeft' = 0
            /\ IF stateShown
               THEN /\ pc' = "screenshot"
                    /\ UNCHANGED <<exc, outcome>>
               ELSE /\ pc' = Unwind
                    /\ exc' = "AssertionError"
                    /\ verdict' = "fail"
                    /\ verdicts' = verdicts + 1
                    /\ failIdx' = IdxGoto
                    /\ UNCHANGED <<hist, timing, shots, files>>
    /\ UNCHANGED <<script, runNo, session, pollInterval, app>>

\* Faulty variant of BetsSleep: the browser is closed right after the sleep,
\* before the screenshot is taken.
BetsSleepThenClose ==
    /\ pc = "sleep"
    /\ sleepLeft = 0
    /\ IF elapsed < SleepSeconds
       THEN /\ sleepLeft' = SleepSeconds - elapsed
            /\ UNCHANGED <<pc, elapsed>>
       ELSE /\ pc' = "close"
            /\ elapsed' = 0
            /\ sleepLeft' = 0
    /\ UNCHANGED <<script, runNo, exc, session, pollInterval, app, outcome>>

\* time.sleep(5)
BetsSleep ==
    /\ pc = "sleep"
    /\ sleepLeft = 0
    /\ IF elapsed < SleepSeconds
       THEN /\ sleepLeft' = SleepSeconds - elapsed
            /\ UNCHANGED <<pc, elapsed>>
       ELSE /\ pc' = "screenshot"
            /\ elapsed' = 0
            /\ sleepLeft' = 0
    /\ UNCHANGED <<script, runNo, exc, session, pollInterval, app, outcome>>

\* page.screenshot(path="jules-scratch/verification/verification.png")
BetsScreenshot ==
    /\ script = "bets"
    /\ Screenshot(BetsArtifactPath, "close")

\* ------------------- verify_realtime_updates.py: test_realtime_updates
\* page.goto("http://127.0.0.1:3000")
RtGoto ==
    /\ script = "realtime"
    /\ Navigate(IdxGoto, "click_link")

\* page.get_by_role("link", name="Poker Online").click().  The click that
\* is dispatched takes the application to its Poker Online screen and the
\* statement returns; the application renders that screen afterwards
\* (HeadingRender, ButtonRender).
ClickLink ==
    /\ ClickLocator(IdxClickLink, "click_link", LinkMatches, clickable,
                    ClickDefaultTimeout, "expect_heading")
    /\ IF pc' = "expect_heading"
       THEN /\ screen' = "poker"
            /\ clickable' = FALSE
       ELSE UNCHANGED <<screen, clickable>>
    /\ UNCHANGED <<script, runNo, session, pollInterval, loaded, rendered,
                   backendAlive, connected, stateShown, potShown, shots,
                   files>>

\* Faulty variant of ExpectHeading: the heading is looked at once and the
\* result is not asserted, the function goes on in either case.
ExpectHeadingNotAsserted ==
    /\ script = "realtime"
    /\ pc = "expect_heading"
    /\ sleepLeft = 0
    /\ LET n == HeadingMatches
           h == Begin(IdxExpectHeading, "expect")
           tm == BeginTiming(IdxExpectHeading, n, n = 1)
       IN  /\ hist' = Finish(h, tm, IF n = 1 THEN "ok" ELSE "TimeoutExceeded")
           /\ timing' = EndTiming(tm, FALSE)
    /\ pc' = "click_connect"
    /\ elapsed' = 0
    /\ sleepLeft' = 0
    /\ UNCHANGED <<script, runNo, exc, session, pollInterval, app, verdict,
                   verdicts, failIdx, shots, files>>

\* expect(page.get_by_role("heading", name="Poker Online")).to_be_visible()
ExpectHeading ==
    /\ script = "realtime"
    /\ ExpectVisible(IdxExpectHeading, "expect_heading", HeadingMatches,
                     ExpectDefaultTimeout, "click_connect")

\* Faulty variant of ClickConnect: after dispatching the click the statement
\* stays until the game state it triggers is rendered (or its timeout).
ClickConnectAwaitsState ==
    /\ pc = "click_connect"
    /\ sleepLeft = 0
    /\ LET n == ButtonMatches
           h == Begin(IdxClickConnect, "click")
           tm == BeginTiming(IdxClickConnect, n, n = 1 /\ clickable)
           dec == ClickDecision(n, clickable, ClickDefaultTimeout)
       IN  IF dec = "ok"
           THEN /\ connected' = TRUE
                /\ IF stateShown THEN StepOk(h, tm, "expect_cell")
                   ELSE IF elapsed >= ClickDefaultTimeout
                        THEN StepRaise(h, tm, IdxClickConnect, "TimeoutError")
                        ELSE StepWait(h, tm, NextLook(ClickDefaultTimeout))
           ELSE /\ connected' = connected
                /\ CASE dec = "ambiguous" ->
                          StepRaise(h, tm, IdxClickConnect, "StrictModeViolation")
                     [] dec = "timeout" ->
                          StepRaise(h, tm, IdxClickConnect, "TimeoutError")
                     [] OTHER -> StepWait(h, tm, NextLook(ClickDefaultTimeout))
    /\ UNCHANGED <<script, runNo, session, pollInterval, screen, loaded,
                   clickable, rendered, backendAlive, stateShown, potShown,
                   shots, files>>

\* page.get_by_role("button", name="Connect").click()
ClickConnect ==
    /\ ClickLocator(IdxClickConnect, "click_connect", ButtonMatches, clickable,
                    ClickDefaultTimeout, "expect_cell")
    /\ connected' = IF pc' = "expect_cell" THEN TRUE ELSE connected
    /\ UNCHANGED <<script, runNo, session, pollInterval, screen, loaded,
                   clickable, rendered, backendAlive, stateShown, potShown,
                   shots, files>>

\* expect(page.get_by_role("cell", name="Player")).to_be_visible(timeout=10000)
ExpectPlayerCell ==
    /\ script = "realtime"
    /\ ExpectVisible(IdxExpectCell, "expect_cell", CellMatches,
                     PlayerTimeout, "expect_pot")

\* expect(page.get_by_text("Pot: ")).to_be_visible()
ExpectPot ==
    /\ script = "realtime"
    /\ ExpectVisible(IdxExpectPot, "expect_pot", PotMatches,
                     ExpectDefaultTimeout, "screenshot")

\* Faulty variant of RtScreenshot: the function returns without writing
\* the file.
RtScreenshotNotWritten ==
    /\ script = "realtime"
    /\ pc = "screenshot"
    /\ verdict' = "pass"
    /\ verdicts' = verdicts + 1
    /\ pc' = "release"
    /\ UNCHANGED <<script, runNo, exc, session, clock, app, hist, timing,
                   failIdx, shots, files>>

\* Faulty variant of RtScreenshot: the screenshot goes to a file of its own
\* instead of the path verify_bets writes.
RtScreenshotOwnPath ==
    /\ script = "realtime"
    /\ Screenshot("jules-scratch/verification/realtime.png", "release")

\* page.screenshot(path="jules-scratch/verification/verification.png")
RtScreenshot ==
    /\ script = "realtime"
    /\ Screenshot(RtArtifactPath, "release")

\* ------------------------------------------ the application under test
\* The page is open in a running browser and the run is going on: what the
\* page shows after the run has ended is nothing the run sees.
Browsing == live /\ page /\ pc # "done"

\* The load event of the page fired: a goto waiting for it is woken.
PageLoad ==
    /\ Browsing
    /\ screen = "loading"
    /\ screen' = "home"
    /\ sleepLeft' = IF pc = "goto" THEN 0 ELSE sleepLeft
    /\ UNCHANGED <<script, runNo, pc, exc, session, elapsed, pollInterval,
                   loaded, clickable, rendered, backendAlive, connected,
                   stateShown, potShown, hist, verdict, verdicts, failIdx, shots,
                   files>>
    /\ timing' = MarkSat(hist, timing, Matches(pc)', Holds(pc)')

\* The WASM module has loaded and renders the UI.  With ?autostart=true
\* (verify_bets) the client connects by itself; the home screen of the
\* other script renders its links, actionable at once or only later.
AppRender ==
    /\ Browsing
    /\ screen # "blank"
    /\ ~loaded
    /\ loaded' = TRUE
    /\ connected' = (connected \/ script = "bets")
    /\ linkCount' \in IF script = "bets" THEN {0} ELSE 0..MaxMatches
    /\ clickable' \in IF script = "bets" THEN {TRUE} ELSE BOOLEAN
    /\ UNCHANGED <<script, runNo, pc, exc, session, clock, screen,
                   buttonCount, headingCount, cellCount, potCount,
                   backendAlive, stateShown, potShown, hist, verdict, verdicts,
                   failIdx, shots, files>>
    /\ timing' = MarkSat(hist, timing, Matches(pc)', Holds(pc)')

\* The Poker Online screen rendered its heading, in one or more elements
\* whose name contains "Poker Online".
HeadingRender ==
    /\ Browsing
    /\ screen = "poker"
    /\ headingCount = 0
    /\ headingCount' \in 1..MaxMatches
    /\ UNCHANGED <<script, runNo, pc, exc, session, clock, screen, loaded,
                   clickable, linkCount, buttonCount, cellCount, potCount,
                   backendAlive, connected, stateShown, potShown, hist,
                   verdict, verdicts, failIdx, shots, files>>
    /\ timing' = MarkSat(hist, timing, Matches(pc)', Holds(pc)')

\* The Poker Online screen rendered its Connect button, in one or more
\* elements, actionable at once or only later.
ButtonRender ==
    /\ Browsing
    /\ screen = "poker"
    /\ buttonCount = 0
    /\ buttonCount' \in 1..MaxMatches
    /\ clickable' \in BOOLEAN
    /\ UNCHANGED <<script, runNo, pc, exc, session, clock, screen, loaded,
                   linkCount, headingCount, cellCount, potCount,
                   backendAlive, connected, stateShown, potShown, hist,
                   verdict, verdicts, failIdx, shots, files>>
    /\ timing' = MarkSat(hist, timing, Matches(pc)', Holds(pc)')

\* The control of the current screen became actionable: it is enabled, has
\* stopped moving, is no longer covered.
Unblock ==
    /\ Browsing
    /\ loaded /\ ~clickable
    /\ IF screen = "poker" THEN buttonCount > 0 ELSE linkCount > 0
    /\ clickable' = TRUE
    /\ UNCHANGED <<script, runNo, pc, exc, session, clock, screen, loaded,
                   rendered, backendAlive, connected, stateShown, potShown,
                   hist, verdict, verdicts, failIdx, shots, files>>
    /\ timing' = MarkSat(hist, timing, Matches(pc)', Holds(pc)')

\* The backend pushed the game state and the client rendered the table,
\* with one or more cells whose name contains "Player".
BackendPush ==
    /\ Browsing
    /\ loaded /\ connected /\ backendAlive
    /\ ~stateShown
    /\ stateShown' = TRUE
    /\ cellCount' \in 1..MaxMatches
    /\ UNCHANGED <<script, runNo, pc, exc, session, clock, screen, loaded,
                   clickable, linkCount, buttonCount, headingCount, potCount,
                   backendAlive, connected, potShown, hist, verdict, verdicts,
                   failIdx, shots, files>>
    /\ timing' = MarkSat(hist, timing, Matches(pc)', Holds(pc)')

\* The client rendered the pot of the game state it holds, in one or more
\* elements whose text contains "Pot: ".
PotRender ==
    /\ Browsing
    /\ stateShown
    /\ ~potShown
    /\ potShown' = TRUE
    /\ potCount' \in 1..MaxMatches
    /\ UNCHANGED <<script, runNo, pc, exc, session, clock, screen, loaded,
                   clickable, linkCount, buttonCount, headingCount, cellCount,
                   backendAlive, connected, stateShown, hist, verdict, verdicts,
                   failIdx, shots, files>>
    /\ timing' = MarkSat(hist, timing, Matches(pc)', Holds(pc)')

\* One second passes while a statement waits.
Tick ==
    /\ sleepLeft > 0
    /\ sleepLeft' = sleepLeft - 1
    /\ elapsed' = elapsed + 1
    /\ UNCHANGED <<script, runNo, pc, exc, session, pollInterval, app, outcome>>

Next ==
    \/ EnterWith
    \/ Launch
    \/ NewPage
    \/ BetsGoto
    \/ BetsSleep
    \/ BetsScreenshot
    \/ BrowserClose
    \/ ExitWith
    \/ FixtureAcquire
    \/ RtGoto
    \/ ClickLink
    \/ ExpectHeading
    \/ ClickConnect
    \/ ExpectPlayerCell
    \/ ExpectPot
    \/ RtScreenshot
    \/ FixtureRelease
    \/ PageLoad
    \/ AppRender
    \/ HeadingRender
    \/ ButtonRender
    \/ Unblock
    \/ BackendPush
    \/ PotRender
    \/ Tick

Spec == Init /\ [][Next]_vars

\* ------------------------------------------------------ a sequence of runs
\* The script that ran has ended and a script is started again, as a new
\* process against the same application: everything of the run starts
\* afresh, the files written stay.
NextRun ==
    /\ pc = "done"
    /\ runNo < MaxRuns
    /\ runNo' = runNo + 1
    /\ script' \in Scripts
    /\ pc' = IF script' = "bets" THEN "enter" ELSE "acquire"
    /\ exc' = "none"
    /\ live' = FALSE
    /\ page' = FALSE
    /\ launches' = 0
    /\ closeCalls' = 0
    /\ killedByExit' = FALSE
    /\ exitCode' = Never
    /\ elapsed' = 0
    /\ sleepLeft' = 0
    /\ screen' = "blank"
    /\ loaded' = FALSE
    /\ clickable' = FALSE
    /\ linkCount' = 0
    /\ buttonCount' = 0
    /\ headingCount' = 0
    /\ cellCount' = 0
    /\ potCount' = 0
    /\ connected' = FALSE
    /\ stateShown' = FALSE
    /\ potShown' = FALSE
    /\ hist' = <<>>
    /\ timing' = NoTiming
    /\ verdict' = "none"
    /\ verdicts' = 0
    /\ failIdx' = 0
    /\ shots' = 0
    /\ UNCHANGED <<pollInterval, backendAlive, files>>

NextRuns == Next \/ NextRun

SpecRuns == Init /\ [][NextRuns]_vars

\* ------------------------------------------------------------ scheduling
\* The statements of the running script: the interpreter executes the next
\* one whenever it can.
Program ==
    \/ EnterWith
    \/ Launch
    \/ NewPage
    \/ BetsGoto
    \/ BetsSleep
    \/ BetsScreenshot
    \/ BrowserClose
    \/ ExitWith
    \/ FixtureAcquire
    \/ RtGoto
    \/ ClickLink
    \/ ExpectHeading
    \/ ClickConnect
    \/ ExpectPlayerCell
    \/ ExpectPot
    \/ RtScreenshot
    \/ FixtureRelease

\* One run in which the script keeps executing and time keeps passing; the
\* application is not obliged to load or render anything.
FairSpec == Spec /\ WF_vars(Program) /\ WF_vars(Tick)

\* ------------------------------------------------------- type invariant
Outcomes == {"running", "ok", "NavigationFailure", "TimeoutExceeded",
             "TimeoutError", "StrictModeViolation"}

TypeOK ==
    /\ script \in Scripts
    /\ live \in BOOLEAN /\ page \in BOOLEAN
    /\ launches \in 0..1 /\ closeCalls \in 0..1
    /\ exitCode \in {Never, 0, 1}
    /\ elapsed \in 0..(ClickDefaultTimeout + MaxPollInterval)
    /\ sleepLeft \in 0..GotoDefaultTimeout
    /\ screen \in {"blank", "loading", "home", "poker"}
    /\ \A k \in 1..5 : rendered[k] \in 0..MaxMatches
    /\ Len(hist) <= IdxExpectPot
    /\ \A k \in 1..Len(hist) : hist[k].idx = k /\ hist[k].res \in Outcomes
    /\ verdict \in {"none", "pass", "fail"}
    /\ shots \in 0..1
    /\ runNo \in 1..MaxRuns
    /\ Cardinality(DOMAIN files) <= 1

\* =========================================================== properties
Done == pc = "done"

\* The run holds (or held) a session, browser launched and page opened:
\* it is at the scenario function's first statement or has begun a step.
SessionAcquired == pc = "goto" \/ hist # <<>>

\* Number of steps the running script declares.
StepCount == IF script = "bets" THEN IdxGoto ELSE IdxExpectPot

\* The time a step waits at most for its condition.
TimeoutOf(k) == TimeoutOfKind(k, hist[k].kind)

\* The step begun last: timing holds its first look and its times.
Cur == Len(hist)
CurIs(kind) == Cur > 0 /\ hist[Cur].kind = kind

Failed(k) == hist[k].res \notin {"running", "ok"}

AllStepsOk ==
    /\ Len(hist) = StepCount
    /\ \A k \in 1..Len(hist) : hist[k].res = "ok"

\* ------------------------------------------------------------------- C1
\* C1: every run that acquired a session has written exactly one
\* screenshot when it is completed, whatever the verdict.
C1_OneScreenshotPerRun ==
    (Done /\ SessionAcquired) => shots = 1

\* ------------------------------------------------------------------- C2
\* C2 as stated: browser.close is called exactly once on every exit path of
\* a run of main that acquired a session, and the session is not left live.
C2_BrowserCloseOnEveryPath ==
    (Done /\ SessionAcquired /\ script = "bets") => (closeCalls = 1 /\ ~live)

\* ------------------------------------------------------------------- C3
\* C3 as stated, the predicate being "an element matching the locator is
\* visible": a polled assertion with timeout T and polling interval d
\* returns without error when its predicate became true strictly before T
\* elapsed; when the predicate never became true it fails with
\* TimeoutExceeded at a time t with T <= t <= T + d.
C3_WaitForTiming ==
    /\ \A k \in 1..Len(hist) :
          (hist[k].kind = "expect" /\ hist[k].seenInTime) => hist[k].res = "ok"
    /\ CurIs("expect") =>
          LET r == hist[Cur]
              T == TimeoutOf(Cur)
          IN  /\ Before(timing.seen, T) => r.res \in {"running", "ok"}
              /\ r.res = "TimeoutExceeded" => timing.endAt >= T
              /\ (timing.seen = Never /\ Failed(Cur)) =>
                    /\ r.res = "TimeoutExceeded"
                    /\ T <= timing.endAt /\ timing.endAt <= T + pollInterval

\* C3 amended: a polled assertion with timeout T and polling interval d
\* looks at its locator when it starts and then every d while T has not
\* elapsed, and it returns without error exactly when the locator resolves
\* to exactly one visible element at one of these looks.  That is certain
\* when the locator came to do so more than d before T elapsed; a locator
\* that does so only after the last look is missed, although it did so
\* strictly before T.  An assertion that has not returned fails with
\* TimeoutExceeded when T has elapsed, at the time T itself, so when the
\* locator never matched anything it fails at a time t with
\* T <= t <= T + d.  A locator found to resolve to more than one element
\* fails the assertion with a strict-mode violation, not TimeoutExceeded,
\* at the look that finds them, before T.
C3_WaitForSeenAtALook ==
    /\ \A k \in 1..Len(hist) :
          hist[k].kind = "expect" =>
              /\ hist[k].satEarly => hist[k].res = "ok"
              /\ hist[k].res = "ok" => (hist[k].satInTime /\ hist[k].prompt)
    /\ CurIs("expect") =>
          LET r == hist[Cur]
              T == TimeoutOf(Cur)
              tm == timing
          IN  /\ Early(tm.sat, T) => r.res = "running"
              /\ r.res = "running" => elapsed <= T
              /\ r.res = "TimeoutExceeded" =>
                    /\ tm.endAt = T
                    /\ ~Early(tm.seen, T)
              /\ (tm.seen = Never /\ Failed(Cur)) =>
                    /\ r.res = "TimeoutExceeded"
                    /\ T <= tm.endAt /\ tm.endAt <= T + pollInterval
              /\ r.res = "StrictModeViolation" =>
                    /\ tm.seen # Never /\ tm.sat = Never
                    /\ tm.endAt < T
                    /\ tm.endAt <= tm.seen + pollInterval
              /\ (Early(tm.seen, T) /\ tm.sat = Never /\ Failed(Cur)) =>
                    r.res = "StrictModeViolation"

\* The Player cell was rendered, one cell, strictly before the 10 s of its
\* assertion had elapsed but after the assertion's last look: the assertion
\* failed with TimeoutExceeded at 10 s.
C3_Witness ==
    /\ Cur = IdxExpectCell
    /\ hist[Cur].res = "TimeoutExceeded"
    /\ Before(timing.sat, PlayerTimeout)
    /\ timing.endAt = PlayerTimeout
    /\ cellCount = 1 /\ stateShown

\* ------------------------------------------------------------------- C4
\* C4: steps run in declared order and the run stops at the first failing
\* step: the k-th step begun is step k, every step before the last one begun
\* has succeeded, and a failed step is the last one ever begun.
C4_InOrderStopAtFirstFailure ==
    /\ \A k \in 1..Len(hist) :
          /\ hist[k].idx = k
          /\ (k < Len(hist)) => hist[k].res = "ok"
    /\ Len(hist) <= StepCount
    /\ (failIdx # 0) => (failIdx = Len(hist) /\ Failed(failIdx))

C4_Witness ==
    /\ Done /\ script = "realtime"
    /\ Len(hist) = IdxClickConnect
    /\ hist[IdxClickConnect].res = "StrictModeViolation"

\* ------------------------------------------------------------------- C5
\* C5: when the backend never pushes game state after the Connect click,
\* the Player cell assertion fails with TimeoutExceeded after its 10 s, the
\* verdict is fail with that assertion's index, the Pot assertion is not
\* evaluated, and the screenshot is still captured.
C5_TimeoutPath ==
    (Done /\ script = "realtime" /\ ~backendAlive
          /\ Len(hist) >= IdxExpectCell) =>
        /\ hist[IdxExpectCell].res = "TimeoutExceeded"
        /\ timing.endAt >= PlayerTimeout
        /\ verdict = "fail"
        /\ failIdx = IdxExpectCell
        /\ Len(hist) = IdxExpectCell
        /\ shots = 1

\* What of C5 the scripts do: everything but the screenshot.
C5_TimeoutPathNoScreenshot ==
    (Done /\ script = "realtime" /\ ~backendAlive
          /\ Len(hist) >= IdxExpectCell) =>
        /\ hist[IdxExpectCell].res = "TimeoutExceeded"
        /\ timing.endAt >= PlayerTimeout
        /\ verdict = "fail"
        /\ failIdx = IdxExpectCell
        /\ Len(hist) = IdxExpectCell
        /\ shots = 0

\* ------------------------------------------------------------------- C6
\* C6 as stated: a click whose locator matches nothing when the step
\* executes fails at once, no polling wait elapsing, and the verdict is fail.
C6_BadSelectorFailsAtOnce ==
    (CurIs("click") /\ timing.n0 = 0) =>
        /\ Failed(Cur)
        /\ ~timing.waited
        /\ verdict = "fail"

\* ------------------------------------------------------------------- C7
\* The application and backend behave as scenario A states, as far as the
\* run got: link, heading and button are rendered once each, and what every
\* step begun looks for was there strictly within that step's timeout.
HappyAsStated ==
    /\ linkCount = 1 /\ buttonCount = 1 /\ headingCount = 1
    /\ \A k \in 1..Len(hist) : hist[k].seenInTime

\* C7 as stated: under these conditions the run of test_realtime_updates
\* ends with verdict pass and exactly one screenshot written.
C7_HappyPathAsStated ==
    (Done /\ script = "realtime" /\ SessionAcquired /\ HappyAsStated) =>
        (verdict = "pass" /\ shots = 1)

\* What scenario A needs besides: every locator, those of the Player cell
\* and the Pot text too, came to resolve to one element, link and button
\* actionable, more than one polling interval before the step's timeout
\* elapsed, so that a look of the step finds it.
HappyEnvironment ==
    \A k \in 1..Len(hist) : hist[k].satEarly

\* C7 amended: if the page loads and the link, the heading, the button, the
\* Player cell and the Pot text each come to resolve to exactly one element,
\* link and button actionable, more than one polling interval before the
\* timeout of their step elapses, all six steps succeed and page.screenshot
\* is called: when it returns the run ends with verdict pass and exactly
\* one screenshot written, when it raises the run ends with verdict fail,
\* no failing step and no screenshot.
C7_HappyPath ==
    (Done /\ script = "realtime" /\ SessionAcquired /\ HappyEnvironment) =>
        /\ Len(hist) = IdxExpectPot
        /\ \A k \in 1..Len(hist) : hist[k].res = "ok"
        /\ failIdx = 0
        /\ \/ /\ verdict = "pass"
              /\ exc = "none" /\ exitCode = 0
              /\ shots = 1
              /\ file.by = "realtime" /\ file.run = runNo
           \/ /\ verdict = "fail"
              /\ exc = "ScreenshotError" /\ exitCode = 1
              /\ shots = 0

C7_Witness ==
    /\ Done /\ script = "realtime" /\ HappyEnvironment
    /\ Len(hist) = IdxExpectPot
    /\ timing.n0 = 0 /\ timing.waited
    /\ verdict = "pass" /\ shots = 1

\* ------------------------------------------------------------------- C8
\* Nothing is done against a session that has been released.
NothingAfterRelease ==
    (SessionAcquired /\ ~live) =>
        UNCHANGED <<hist, shots, files, verdict, verdicts, failIdx, closeCalls>>

\* C8: releasing the session is the last thing a run does to it: when
\* browser.close has been called the screenshot was captured and the verdict
\* produced, and after the release no step, poll or screenshot happens.
C8_ReleaseIsLast ==
    /\ [](closeCalls > 0 =>
            /\ verdict # "none"
            /\ script = "bets" => (shots = 1 /\ verdict = "pass"))
    /\ [][NothingAfterRelease]_vars

C8_Witness ==
    /\ Done /\ script = "bets"
    /\ closeCalls = 1 /\ shots = 1 /\ verdict = "pass" /\ ~live

\* ------------------------------------------------------------------- C9
\* C9 as stated: one verdict per scenario run; a fail verdict names the
\* first step that failed; when every step succeeded the verdict is pass and
\* names none.
C9_OneVerdict ==
    /\ verdicts <= 1
    /\ (verdicts = 0) = (verdict = "none")
    /\ (Done /\ SessionAcquired) => verdicts = 1
    /\ verdict = "fail" =>
          /\ failIdx \in 1..Len(hist)
          /\ Failed(failIdx)
          /\ \A k \in 1..(failIdx - 1) : hist[k].res = "ok"
    /\ verdict = "pass" =>
          /\ failIdx = 0
          /\ Len(hist) = StepCount
          /\ \A k \in 1..Len(hist) : hist[k].res = "ok"
    /\ (Done /\ SessionAcquired /\ Len(hist) = StepCount
          /\ \A k \in 1..Len(hist) : hist[k].res = "ok") =>
             (verdict = "pass" /\ failIdx = 0)

\* C9 amended: one verdict per scenario run; a fail verdict produced by a
\* step names the first step that failed; when every step succeeded the
\* verdict names no step, and it is pass if the screenshot was written and
\* fail if page.screenshot raised.
C9_OneVerdictOrCaptureError ==
    /\ verdicts <= 1
    /\ (verdicts = 0) = (verdict = "none")
    /\ (Done /\ SessionAcquired) => verdicts = 1
    /\ (verdict = "fail" /\ ~AllStepsOk) =>
          /\ failIdx \in 1..Len(hist)
          /\ Failed(failIdx)
          /\ \A k \in 1..(failIdx - 1) : hist[k].res = "ok"
    /\ (verdict = "fail" /\ AllStepsOk) =>
          /\ failIdx = 0 /\ shots = 0
          /\ exc \in {"ScreenshotError", "ExitError"}
    /\ exc = "ScreenshotError" =>
          (verdict = "fail" /\ failIdx = 0 /\ AllStepsOk /\ shots = 0)
    /\ verdict = "pass" => (failIdx = 0 /\ AllStepsOk /\ shots = 1)
    /\ (Done /\ SessionAcquired /\ AllStepsOk) =>
          /\ failIdx = 0
          /\ (verdict = "pass") = (shots = 1)
          /\ script = "realtime" =>
                (verdict = "pass") = (exc # "ScreenshotError")

\* A run of six successful steps failed in the screenshot: the verdict is
\* fail and names no step.
C9_Witness ==
    /\ Done /\ script = "realtime" /\ verdicts = 1 /\ verdict = "fail"
    /\ failIdx = 0 /\ AllStepsOk /\ exc = "ScreenshotError"

\* ------------------------------------------------------------------ C10
\* C10: a browser launch failure is fatal: launch is attempted at most once,
\* no step runs and nothing is written after it, and the run ends non-zero.
C10_LaunchFailureFatal ==
    /\ launches <= 1
    /\ exc = "LaunchFailure" =>
          /\ hist = <<>>
          /\ shots = 0
          /\ verdict # "pass"
          /\ ~live
          /\ pc \in {"exit_with", "done"}
          /\ Done => exitCode = 1
    /\ (Done /\ ~SessionAcquired) =>
          (exitCode = 1 /\ hist = <<>> /\ shots = 0 /\ verdict = "none")

C10_Witness ==
    /\ Done /\ script = "bets"
    /\ exc = "LaunchFailure" /\ launches = 1 /\ exitCode = 1

\* ------------------------------------------------------------------ C11
\* C11: a TimeoutExceeded of a polled assertion is surfaced to the caller
\* once and never swallowed: the assertion that timed out is the last step
\* of the run, it is not tried again, the verdict is fail at that step and
\* the run does not end with a pass.
C11_TimeoutSurfacedOnce ==
    \A k \in 1..Len(hist) :
        hist[k].res = "TimeoutExceeded" =>
            /\ k = Len(hist)
            /\ pc \in {"release", "done"}
            /\ exc = "TimeoutExceeded"
            /\ verdict = "fail" /\ verdicts = 1 /\ failIdx = k
            /\ Done => exitCode = 1

C11_Witness ==
    /\ Done /\ Len(hist) = IdxExpectPot
    /\ hist[IdxExpectPot].res = "TimeoutExceeded"
    /\ exc = "TimeoutExceeded" /\ verdict = "fail" /\ exitCode = 1

\* ------------------------------------------------------------------ C12
\* The session of the run has been released: browser.close was called for
\* it and neither browser nor page is left.
Released == SessionAcquired => (closeCalls = 1 /\ ~live /\ ~page)

\* C12: every run terminates: whatever the application does, the run
\* eventually is completed with its session released, and stays so.
C12_RunTerminates == <>[](Done /\ Released)

\* ------------------------------------------------------------------ C13
\* The statements that wait by polling an observable condition.
PollingStatements ==
    {"click_link", "expect_heading", "click_connect", "expect_cell",
     "expect_pot"}

\* C13: the run is suspended only while a navigation settles or a statement
\* polls a condition, never in a sleep of fixed length, so whenever time is
\* passing the run is at goto or at a polling statement.
C13_NoFixedSleep ==
    sleepLeft > 0 => pc \in PollingStatements \cup {"goto"}

\* ------------------------------------------------------------------ C14
\* The Scenario Runner's state, read off the position of the script.
RunnerState ==
    IF pc \in {"enter", "acquire"} THEN "Idle"
    ELSE IF pc = "done" THEN "Completed"
    ELSE "Running"

\* The steps the runner may take: it leaves Idle only by starting the run
\* (or by failing to start it); from Running it only goes on running or
\* completes; nothing happens once Completed; the one acquisition is
\* attempted before any step and steps are executed only while Running.
RunnerStep ==
    /\ (RunnerState = "Idle" /\ RunnerState' # "Idle") =>
          \/ RunnerState' = "Running"
          \/ exc' \in {"EnterError", "LaunchFailure"}
    /\ RunnerState = "Running" => RunnerState' \in {"Running", "Completed"}
    /\ RunnerState = "Completed" => UNCHANGED vars
    /\ launches' # launches =>
          (launches = 0 /\ hist = <<>> /\ RunnerState # "Completed")
    /\ hist' # hist => (RunnerState = "Running" /\ RunnerState' # "Idle")

\* C14: the runner moves only Idle -> Running -> Completed, Completed is
\* terminal, and one runner performs at most one run: it acquires at most
\* one session and executes no step outside that run.  (A failed entry of
\* the with block, or a failed acquisition by the caller of
\* test_realtime_updates, completes the run in the step that started it.)
C14_RunnerStateMachine ==
    /\ [](/\ launches <= 1
          /\ RunnerState = "Idle" =>
                (launches = 0 /\ ~live /\ hist = <<>> /\ verdict = "none"))
    /\ [][RunnerStep]_vars

C14_Witness ==
    /\ RunnerState = "Completed" /\ script = "realtime"
    /\ launches = 1 /\ verdict = "fail" /\ Len(hist) = IdxExpectHeading

\* ------------------------------------------------------------------ C15
\* A click goes on waiting only when it found no single actionable element
\* to click.
ClickWaitsOnlyForElement ==
    (sleepLeft = 0 /\ sleepLeft' > 0) =>
        /\ pc = "click_link" => ~Holds("click_link")
        /\ pc = "click_connect" => ~Holds("click_connect")

\* C15: a click step ends as soon as the click is dispatched: it returns at
\* the first look at which its element is there and actionable, having made
\* the request (the client is connected) but without waiting for the state
\* the click triggers; that state is awaited by the assertion that follows.
C15_ClickDoesNotAwaitState ==
    /\ [](\A k \in 1..Len(hist) :
            (hist[k].kind = "click" /\ hist[k].res = "ok") => hist[k].prompt)
    /\ [][ClickWaitsOnlyForElement]_vars
    /\ [][(pc = "click_connect" /\ pc' # pc /\ pc' # Unwind) =>
            (pc' = "expect_cell" /\ connected' /\ stateShown' = stateShown)]_vars

\* The Connect click has returned and the game state has not arrived yet.
C15_Witness ==
    /\ pc = "expect_cell" /\ Len(hist) = IdxClickConnect
    /\ hist[IdxClickConnect].res = "ok"
    /\ connected /\ ~stateShown

\* ------------------------------------------------------------------ C16
\* C16 as stated: whether a click is dispatched is settled by what its
\* selector resolves to when the step executes: with zero matches or more
\* than one the step fails and no click is dispatched, so a click that was
\* dispatched began with exactly one match.
C16_DispatchSettledAtStart ==
    CurIs("click") =>
        /\ timing.n0 = 0 => hist[Cur].res # "ok"
        /\ timing.n0 > 1 => hist[Cur].res = "StrictModeViolation"

\* ------------------------------------------------------------------ C17
\* C17 (second half): a look of a polling statement that does not end the
\* statement leaves the application state unchanged.
PollingLeavesAppUnchanged ==
    [][(pc \in PollingStatements /\ sleepLeft = 0 /\ sleepLeft' > 0) =>
          UNCHANGED app]_vars

\* ------------------------------------------------------------------ C18
\* C18: there is at most one artifact file and each capturing run overwrites
\* it: the file is never newer than the current run, it is the current run's
\* screenshot once this run captured one, and it changes only by a run's
\* screenshot, so a run that captures none leaves the latest earlier one.
C18_ArtifactOverwritten ==
    /\ [](/\ Cardinality(DOMAIN files) <= 1
          /\ DOMAIN files \subseteq {BetsArtifactPath, RtArtifactPath}
          /\ file.run <= runNo
          /\ files = NoFiles => shots = 0
          /\ shots = 1 => (file.run = runNo /\ file.by = script)
          /\ (shots = 0 /\ files # NoFiles) => file.run < runNo)
    /\ [][files' # files => (shots' = shots + 1 /\ runNo' = runNo)]_vars

\* The second run, of test_realtime_updates, failed and captured nothing:
\* the file is still the screenshot the first run, of verify_bets, wrote.
C18_Witness ==
    /\ runNo = 2 /\ Done /\ script = "realtime"
    /\ verdict = "fail" /\ shots = 0
    /\ Cardinality(DOMAIN files) = 1
    /\ file.run = 1 /\ file.by = "bets"

\* ------------------------------------------------------------------ C19
\* C19: in test_realtime_updates the screenshot exists only after all six
\* steps, the three assertions among them, succeeded in order, and the
\* Connect click was dispatched only after the heading assertion succeeded.
C19_ScreenshotAfterAssertions ==
    /\ (script = "realtime" /\ shots = 1) =>
          /\ Len(hist) = IdxExpectPot
          /\ \A k \in 1..Len(hist) : hist[k].res = "ok" /\ hist[k].prompt
          /\ file.game /\ file.screen = "poker"
    /\ (script = "realtime" /\ connected) =>
          /\ Len(hist) >= IdxClickConnect
          /\ hist[IdxExpectHeading].kind = "expect"
          /\ hist[IdxExpectHeading].res = "ok"
          /\ hist[IdxClickConnect].res = "ok"

C19_Witness ==
    /\ script = "realtime" /\ shots = 1 /\ pc = "release"
    /\ connected /\ potShown
    /\ hist[IdxExpectPot].res = "ok" /\ timing.waited

\* ------------------------------------------------------------------ C20
\* C20 as stated: verify_bets asserts nothing, so once the navigation
\* succeeded the run never fails: it takes the screenshot, calls
\* browser.close and exits with 0, whether or not the game was rendered when
\* the sleep ended.
C20_BetsOutcomeIgnoresApp ==
    (script = "bets" /\ Len(hist) = IdxGoto /\ hist[IdxGoto].res = "ok") =>
        /\ verdict # "fail" /\ exc = "none"
        /\ Done =>
              /\ verdict = "pass" /\ shots = 1 /\ closeCalls = 1
              /\ exitCode = 0 /\ file.by = "bets"

\* C20 amended: verify_bets asserts nothing: once the navigation succeeded
\* the run reaches page.screenshot whatever the page shows, and what the
\* page shows never makes it fail.  The run fails only when a library call
\* raises: page.screenshot (then no file is written and browser.close is
\* not called), browser.close, or the exit of the sync_playwright block.
\* It exits with 0 exactly when none of them raised, and then it has
\* written the screenshot and called browser.close once, whether or not
\* the game was rendered when the sleep ended.
C20_BetsFailsOnlyByLibraryCall ==
    (script = "bets" /\ Len(hist) = IdxGoto /\ hist[IdxGoto].res = "ok") =>
        /\ failIdx = 0
        /\ exc \in {"none", "ScreenshotError", "CloseError", "ExitError"}
        /\ pc \in {"sleep", "screenshot"} => (exc = "none" /\ verdict = "none")
        /\ exc = "ScreenshotError" => verdict = "fail"
        /\ exc = "CloseError" => verdict = "pass"
        /\ verdict = "fail" =>
              /\ exc \in {"ScreenshotError", "ExitError"}
              /\ shots = 0 /\ closeCalls = 0
        /\ verdict = "pass" =>
              (shots = 1 /\ file.by = "bets" /\ file.run = runNo)
        /\ Done =>
              /\ verdict \in {"pass", "fail"}
              /\ (exitCode = 0) = (exc = "none")
              /\ verdict = "pass" => closeCalls = 1
              /\ exc = "none" => (verdict = "pass" /\ ~live /\ ~page)

\* verify_bets passed with a screenshot of a page on which not even the UI,
\* let alone the game, was rendered when the sleep ended.
C20_Witness ==
    /\ Done /\ script = "bets" /\ verdict = "pass" /\ exitCode = 0
    /\ shots = 1 /\ ~file.game /\ ~loaded

====
